---- MODULE Spec2Model ----
(***************************************************************************)
(* A model of three units of the OpenMetadata ingestion package:           *)
(*   - the Redshift relation enumerator (redshift.py, lines 51-173),       *)
(*   - the PostgreSQL/Redshift type-string decoder (redshift.py, 109-141   *)
(*     and 217-421),                                                       *)
(*   - the ORM model builder (orm/converter.py).                           *)
(* Each unit has its own specification (SpecReflect, SpecDecoder, SpecOrm) *)
(* over the module's variables; a unit's specification leaves the other    *)
(* units' variables at their initial values.                               *)
(***************************************************************************)
EXTENDS Integers, Sequences, FiniteSets, TLC

VARIABLES
    \* ---- relation enumerator ----
    catalog,        \* the database: [std: rows of the relation catalog, ext: rows of svv_external_tables]
    info_cache,     \* the Inspector's info_cache dict: cache key -> memoized return value
    lastCall,       \* the last enumerator call: [fn, schema, cached]
    lastResult,     \* what that call returned
    lastQueries,    \* how many catalog queries (connection.execute) that call issued
    callsMade,      \* number of enumerator calls made so far (bounded by MaxCalls)
    \* ---- model builder ----
    ormCall,        \* the builder call in hand: [fn, table, database] or [fn, arg]
    ormResult,      \* what it returned or raised
    \* ---- type-string decoder: one _get_column_info call and its locals ----
    decPc,          \* idle, loop (in the domain loop), resolved (after it),
                    \* super_returned (back in the Redshift override), done, raised
    decCall,        \* the arguments of the call, and who made it (via)
    decExc,         \* the exception raised, if any
    attype,
    is_array,
    enum_or_domain_key,
    nullable,
    default,
    args,
    kwargs,
    coltype,        \* the class the loop found, or None
    column_info,    \* the dict returned
    traversed       \* the keys of the domains the loop substituted so far

refVars == <<catalog, info_cache, lastCall, lastResult, lastQueries, callsMade>>

ormVars == <<ormCall, ormResult>>

decVars == <<decPc, decCall, decExc, attype, is_array, enum_or_domain_key, nullable,
             default, args, kwargs, coltype, column_info, traversed>>

vars == <<refVars, ormVars, decVars>>

(***************************************************************************)
(* Python's None and optional values.  An optional value is a record with  *)
(* a flag; NoneVal is None, Some(v) is the value v.                        *)
(***************************************************************************)
NoneVal == [none |-> TRUE, val |-> <<>>]

Some(v) == [none |-> FALSE, val |-> v]

(***************************************************************************)
(*                         RELATION ENUMERATOR                             *)
(***************************************************************************)

\* Bounds of the enumerator model.
MaxStdRows == 1

MaxExtRows == 1

MaxCalls == 2

RelNames == {"t1", "t2"}

SchemaNames == {"public", "s2"}

\* inspect(connection).default_schema_name
DefaultSchemaName == "public"

\* The one connection the Inspector is bound to.
Connection == "conn"

\* relkind values the standard relation catalog query yields.
StdRelkinds == {"r", "v"}

\* A row of the standard relation catalog query (REDSHIFT_GET_ALL_RELATION_INFO).
StdRows == [relname : RelNames, schema : SchemaNames, relkind : StdRelkinds, src : {"std"}]

\* The external schema the external tables live in.
ExtSchemaNames == {"s2"}

\* A row of the svv_external_tables query: relkind is the literal 'e'.
ExtRows == [relname : RelNames, schema : ExtSchemaNames, relkind : {"e"}, src : {"ext"}]

RelationKey(relname, schema, connection) == <<relname, schema, connection>>

KeyOf(rel) == RelationKey(rel.relname, rel.schema, Connection)

\* The standard catalog lists a relation once (pg_class is unique on schema, name).
DistinctKeys(rows) ==
    \A i, j \in 1..Len(rows) : i # j => KeyOf(rows[i]) # KeyOf(rows[j])

SeqsUpTo(S, n) == UNION {[1..k -> S] : k \in 0..n}

Catalogs ==
    {[std |-> s, ext |-> e] :
        s \in {r \in SeqsUpTo(StdRows, MaxStdRows) : DistinctKeys(r)},
        e \in {r \in SeqsUpTo(ExtRows, MaxExtRows) : DistinctKeys(r)}}

(***************************************************************************)
(* A Python dict keeps insertion order; it is modelled as a sequence of    *)
(* [key, val] items with distinct keys.                                    *)
(***************************************************************************)
DictKeys(d) == {d[i].key : i \in 1..Len(d)}

DictGet(d, k) == (CHOOSE i \in 1..Len(d) : d[i].key = k)

\* d[k] = v keeping the first assignment (dict.setdefault): the mutant of DictSet.
DictSetKeepFirst(d, k, v) ==
    IF k \in DictKeys(d) THEN d ELSE Append(d, [key |-> k, val |-> v])

\* relations[key] = rel: a new key is appended, an existing key keeps its
\* position and takes the new value.
DictSet(d, k, v) ==
    IF k \in DictKeys(d)
    THEN [i \in 1..Len(d) |-> IF d[i].key = k THEN [key |-> k, val |-> v] ELSE d[i]]
    ELSE Append(d, [key |-> k, val |-> v])

StoreRelation(relations, rel) == DictSet(relations, KeyOf(rel), rel)

\* for rel in result: relations[key] = rel
RECURSIVE StoreRelations(_, _)
StoreRelations(relations, result) ==
    IF result = <<>> THEN relations
    ELSE StoreRelations(StoreRelation(relations, Head(result)), Tail(result))

\* The body of _get_all_relation_info: both queries, in order, into one dict.
AllRelationInfoBody(cat) ==
    StoreRelations(StoreRelations(<<>>, cat.std), cat.ext)

(***************************************************************************)
(* @reflection.cache: cache(fn, self, con, *args, **kw).  Without an       *)
(* info_cache keyword the function is called directly.  Otherwise the key  *)
(* is the function's name, the string arguments AFTER the first positional *)
(* one (the decorator takes the first one to be the connection) and the    *)
(* keywords other than info_cache.                                         *)
(***************************************************************************)
CacheKey(fname, strargs) == <<fname, strargs>>

\* A cache that never hits: the mutant of CacheHit.
CacheHitNever(cache, key) == FALSE

\* ret = info_cache.get(key); if ret is None: ... (no memoized value is None)
CacheHit(cache, key) == key \in DOMAIN cache

CachePut(cache, key, ret) == [k \in DOMAIN cache \cup {key} |-> IF k = key THEN ret ELSE cache[k]]

\* The string arguments of a call with an optional schema.
SchemaStrArgs(schema) == IF schema.none THEN <<>> ELSE <<schema.val>>

\* _get_all_relation_info(connection, info_cache=...) through its decorator.
\* Returns [ret, cache, queries].
GetAllRelationInfo(cat, cached, cache) ==
    LET key == CacheKey("_get_all_relation_info", <<>>) IN
    IF ~cached
    THEN [ret |-> AllRelationInfoBody(cat), cache |-> cache, queries |-> 2]
    ELSE IF CacheHit(cache, key)
         THEN [ret |-> cache[key], cache |-> cache, queries |-> 0]
         ELSE LET ret == AllRelationInfoBody(cat) IN
              [ret |-> ret, cache |-> CachePut(cache, key, ret), queries |-> 2]

\* The decorator's key for _get_table_or_view_names(relkinds, connection, schema):
\* relkinds sits in the decorator's `con` position and connection is no string,
\* so only the schema (when it is a string) enters the key.
TableOrViewNamesKey(relkinds, schema) ==
    CacheKey("_get_table_or_view_names", SchemaStrArgs(schema))

\* if not schema: schema = default_schema
EffectiveSchema(schema) ==
    IF schema.none \/ schema.val = "" THEN DefaultSchemaName ELSE schema.val

\* The loop of _get_table_or_view_names over all_relations.items(): the names
\* of the relations of schema sch whose relkind is in relkinds, in dict order.
RECURSIVE FilterNames(_, _, _)
FilterNames(all_relations, relkinds, sch) ==
    IF all_relations = <<>> THEN <<>>
    ELSE LET item == Head(all_relations)
             rest == FilterNames(Tail(all_relations), relkinds, sch)
         IN IF item.key[2] = sch /\ item.val.relkind \in relkinds
            THEN <<item.key[1]>> \o rest ELSE rest

\* _get_table_or_view_names(relkinds, connection, schema, **kw) through its decorator.
GetTableOrViewNames(relkinds, cat, schema, cached, cache) ==
    LET key == TableOrViewNamesKey(relkinds, schema)
        body == LET all == GetAllRelationInfo(cat, cached, cache) IN
                [ret |-> FilterNames(all.ret, relkinds, EffectiveSchema(schema)),
                 cache |-> all.cache, queries |-> all.queries]
    IN IF ~cached THEN body
       ELSE IF CacheHit(cache, key)
            THEN [ret |-> cache[key], cache |-> cache, queries |-> 0]
            ELSE [ret |-> body.ret, cache |-> CachePut(body.cache, key, body.ret),
                  queries |-> body.queries]

\* get_table_names / get_view_names (connection, schema, **kw) through their decorator.
GetNames(fname, relkinds, cat, schema, cached, cache) ==
    LET key == CacheKey(fname, SchemaStrArgs(schema))
        body == GetTableOrViewNames(relkinds, cat, schema, cached, cache)
    IN IF ~cached THEN body
       ELSE IF CacheHit(cache, key)
            THEN [ret |-> cache[key], cache |-> cache, queries |-> 0]
            ELSE [ret |-> body.ret, cache |-> CachePut(body.cache, key, body.ret),
                  queries |-> body.queries]

GetTableNames(cat, schema, cached, cache) ==
    GetNames("get_table_names", {"r", "e"}, cat, schema, cached, cache)

GetViewNames(cat, schema, cached, cache) ==
    GetNames("get_view_names", {"v"}, cat, schema, cached, cache)

\* The schema arguments a caller passes: None or a schema name.
SchemaArgs == {NoneVal} \cup {Some(s) : s \in SchemaNames \ {DefaultSchemaName}}

NoCall == [fn |-> "none", schema |-> NoneVal, cached |-> FALSE]

NoDecCall == [via |-> "none"]

\* The decoder before any call.
DecIdle ==
    /\ decPc = "idle"
    /\ decCall = NoDecCall
    /\ decExc = ""
    /\ attype = <<>>
    /\ is_array = FALSE
    /\ enum_or_domain_key = <<>>
    /\ nullable = TRUE
    /\ default = NoneVal
    /\ args = <<>>
    /\ kwargs = <<>>
    /\ coltype = NoneVal
    /\ column_info = <<>>
    /\ traversed = {}

\* The builder before any call.
OrmIdle ==
    /\ ormCall = [fn |-> "none"]
    /\ ormResult = [kind |-> "none"]

RefInit ==
    /\ OrmIdle
    /\ DecIdle
    /\ catalog \in Catalogs
    /\ info_cache = <<>>
    /\ lastCall = NoCall
    /\ lastResult = <<>>
    /\ lastQueries = 0
    /\ callsMade = 0

Finish(fn, schema, cached, r) ==
    /\ info_cache' = r.cache
    /\ lastCall' = [fn |-> fn, schema |-> schema, cached |-> cached]
    /\ lastResult' = r.ret
    /\ lastQueries' = r.queries
    /\ callsMade' = callsMade + 1
    /\ UNCHANGED <<catalog, ormVars, decVars>>

\* dialect.get_table_names(connection, schema, info_cache=...)
CallGetTableNames ==
    /\ callsMade < MaxCalls
    /\ \E schema \in SchemaArgs, cached \in BOOLEAN :
         Finish("get_table_names", schema, cached,
                GetTableNames(catalog, schema, cached, info_cache))

CallGetViewNames ==
    /\ callsMade < MaxCalls
    /\ \E schema \in SchemaArgs, cached \in BOOLEAN :
         Finish("get_view_names", schema, cached,
                GetViewNames(catalog, schema, cached, info_cache))

CallGetAllRelationInfo ==
    /\ callsMade < MaxCalls
    /\ \E cached \in BOOLEAN :
         Finish("_get_all_relation_info", NoneVal, cached,
                GetAllRelationInfo(catalog, cached, info_cache))

\* The database changes between calls: an external table is created or dropped.
ExternalTablesChange ==
    /\ \E e \in {r \in SeqsUpTo(ExtRows, MaxExtRows) : DistinctKeys(r)} :
         /\ e # catalog.ext
         /\ catalog' = [catalog EXCEPT !.ext = e]
    /\ UNCHANGED <<info_cache, lastCall, lastResult, lastQueries, callsMade, ormVars, decVars>>

RefNext ==
    \/ CallGetTableNames
    \/ CallGetViewNames
    \/ CallGetAllRelationInfo
    \/ ExternalTablesChange

SpecReflect == RefInit /\ [][RefNext]_vars

(***************************************************************************)
(*                  Claims about the relation enumerator                   *)
(***************************************************************************)
AllRelationsKey == <<"_get_all_relation_info", <<>>>>

\* The names of the relations of a mapping that lie in schema sch with a relkind in kinds.
NamesOfKind(relations, sch, kinds) ==
    {relations[i].key[1] : i \in {j \in 1..Len(relations) :
        relations[j].key[2] = sch /\ relations[j].val.relkind \in kinds}}

IsNameList(result, relations, sch, kinds) ==
    /\ {result[i] : i \in 1..Len(result)} = NamesOfKind(relations, sch, kinds)
    /\ Len(result) = Cardinality(NamesOfKind(relations, sch, kinds))

\* C1: every get_table_names call made with the info_cache returns exactly the
\* names of the schema's relations of relkind 'r' or 'e', and every
\* get_view_names call exactly those of relkind 'v', whichever of the two was
\* called earlier with that schema and info_cache.  (Violated by the code.)
C1_NamesIndependentOfCallOrder ==
    /\ (lastCall.fn = "get_table_names" /\ lastCall.cached) =>
          IsNameList(lastResult, info_cache[AllRelationsKey],
                     EffectiveSchema(lastCall.schema), {"r", "e"})
    /\ (lastCall.fn = "get_view_names" /\ lastCall.cached) =>
          IsNameList(lastResult, info_cache[AllRelationsKey],
                     EffectiveSchema(lastCall.schema), {"v"})

\* The rows both catalog queries yield, in the order they are seen.
RowsSeen(cat) == cat.std \o cat.ext

LastRowWithKey(rows, k) ==
    LET last == CHOOSE i \in 1..Len(rows) :
                  /\ KeyOf(rows[i]) = k
                  /\ \A j \in (i + 1)..Len(rows) : KeyOf(rows[j]) # k
    IN rows[last]

IsMergedMapping(relations, cat) ==
    /\ DictKeys(relations) = {KeyOf(RowsSeen(cat)[i]) : i \in 1..Len(RowsSeen(cat))}
    /\ \A i \in 1..Len(relations) :
          relations[i].val = LastRowWithKey(RowsSeen(cat), relations[i].key)
    /\ \A i, j \in 1..Len(relations) : i # j => relations[i].key # relations[j].key

\* A step in which _get_all_relation_info ran its body (it queried the catalog).
AllRelationInfoQueried ==
    /\ callsMade' = callsMade + 1
    /\ lastCall'.fn = "_get_all_relation_info"
    /\ lastQueries' > 0

\* C8: the mapping _get_all_relation_info builds has as keys the union of the
\* keys of the standard catalog rows and of the external-table rows, and under
\* each key the last row seen, so an external-table row replaces a standard row
\* of the same key.
C8_MergedMappingLastSeenWins ==
    [][AllRelationInfoQueried => IsMergedMapping(lastResult', catalog)]_vars

\* C8 witness: a built mapping in which an external-table row replaced a
\* standard-catalog row of the same key.
C8_Witness_ExternalOverwrote ==
    /\ lastCall.fn = "_get_all_relation_info"
    /\ lastQueries > 0
    /\ lastResult = AllRelationInfoBody(catalog)
    /\ \E i \in 1..Len(lastResult), j \in 1..Len(catalog.std) :
          /\ lastResult[i].val.src = "ext"
          /\ KeyOf(catalog.std[j]) = lastResult[i].key

\* A step that is a call of _get_all_relation_info with the info_cache.
CachedAllRelationInfoCall ==
    /\ callsMade' = callsMade + 1
    /\ lastCall'.fn = "_get_all_relation_info"
    /\ lastCall'.cached

\* C9: a call of _get_all_relation_info with the info_cache leaves its mapping
\* memoized; once memoized, the mapping stays the same whatever is called and
\* however the database changes, and every later call with the info_cache
\* returns it and issues no catalog query.
C9_MemoizedNoRequery ==
    [][/\ CachedAllRelationInfoCall =>
            /\ AllRelationsKey \in DOMAIN info_cache'
            /\ lastResult' = info_cache'[AllRelationsKey]
       /\ AllRelationsKey \in DOMAIN info_cache =>
            /\ AllRelationsKey \in DOMAIN info_cache'
            /\ info_cache'[AllRelationsKey] = info_cache[AllRelationsKey]
            /\ CachedAllRelationInfoCall =>
                  /\ lastResult' = info_cache[AllRelationsKey]
                  /\ lastQueries' = 0]_vars

\* C9 witness: a later cached call returned the memoized mapping without a
\* query although the database has changed since the mapping was built.
C9_Witness_StaleMemoReturned ==
    /\ lastCall.fn = "_get_all_relation_info"
    /\ lastCall.cached
    /\ lastQueries = 0
    /\ lastResult = info_cache[AllRelationsKey]
    /\ lastResult # AllRelationInfoBody(catalog)

(***************************************************************************)
(*                            MODEL BUILDER                                *)
(***************************************************************************)

\* Bound of the builder model: the longest column list of a table.
MaxCols == 3

\* The enumerator before any call, with an empty database.
RefIdle ==
    /\ catalog = [std |-> <<>>, ext |-> <<>>]
    /\ info_cache = <<>>
    /\ lastCall = NoCall
    /\ lastResult = <<>>
    /\ lastQueries = 0
    /\ callsMade = 0

Returned(v) == [kind |-> "returned", val |-> v]

Raised(exc) == [kind |-> "raised", exc |-> exc]

\* _TYPE_MAP, for the data types of the model; DataType.ARRAY has no entry.
TYPE_MAP == [INT |-> "sqlalchemy.INT", STRING |-> "sqlalchemy.String"]

DataTypes == {"INT", "STRING", "ARRAY"}

\* _TYPE_MAP.get(col.dataType)
TypeMapGet(dataType) ==
    IF dataType \in DOMAIN TYPE_MAP THEN Some(TYPE_MAP[dataType]) ELSE NoneVal

ColumnNames == {"id", "name", "amount"}

\* A Column entity: name is an EntityName whose __root__ is the string.
Columns == [name : [root : ColumnNames], dataType : DataTypes]

\* A Database entity and the other arguments get_db_name may be given.
DatabaseEntity == [type |-> "Database", name |-> [root |-> "prod"]]

DbArgs ==
    {[type |-> "str", val |-> "db1"], [type |-> "str", val |-> ""], DatabaseEntity,
     [type |-> "int", val |-> "7"], [type |-> "NoneType", val |-> "None"],
     [type |-> "Table", name |-> [root |-> "orders"]]}

\* Every column flagged as primary key: the mutant of IsPrimaryKey.
IsPrimaryKeyAlways(idx) == TRUE

\* primary_key=True if idx == 0 else False
IsPrimaryKey(idx) == idx = 0

\* build_orm_col(idx, col)
build_orm_col(idx, col) ==
    [name |-> col.name.root, type |-> TypeMapGet(col.dataType), primary_key |-> IsPrimaryKey(idx)]

\* The dict comprehension of ometa_to_orm: {str(col.name.__root__): build_orm_col(idx, col)
\* for idx, col in enumerate(table.columns)}, built from index idx on.
RECURSIVE BuildCols(_, _, _)
BuildCols(cols, columns, idx) ==
    IF idx >= Len(columns) THEN cols
    ELSE BuildCols(DictSet(cols, columns[idx + 1].name.root, build_orm_col(idx, columns[idx + 1])),
                   columns, idx + 1)

\* A default implementation that falls back to a name silently: the mutant of GetDbNameDefault.
GetDbNameSilentFallback(arg) == Returned(arg.type)

\* @singledispatch get_db_name(arg): raise NotImplementedError
GetDbNameDefault(arg) == Raised("NotImplementedError")

\* @get_db_name.register (arg: str): return arg
GetDbNameStr(arg) == Returned(arg.val)

\* @get_db_name.register (arg: Database): return str(arg.name.__root__)
GetDbNameDatabase(arg) == Returned(arg.name.root)

\* singledispatch: the implementation registered for the argument's type, the
\* default one when none is.
get_db_name(arg) ==
    IF arg.type = "str" THEN GetDbNameStr(arg)
    ELSE IF arg.type = "Database" THEN GetDbNameDatabase(arg)
    ELSE GetDbNameDefault(arg)

\* type(name, (Base,), {...}): the declarative mapping of the class.  SQLAlchemy
\* refuses a mapped table without a primary key column (build_orm_col's
\* docstring: "SQLAlchemy forces us to specify at least one PK").
DeclarativeClass(tablename, schema, cols) ==
    IF \E i \in 1..Len(cols) : cols[i].val.primary_key
    THEN Returned([tablename |-> tablename, schema |-> schema,
                   columns |-> [i \in 1..Len(cols) |-> cols[i].val]])
    ELSE Raised("ArgumentError")

\* ometa_to_orm(table, database)
ometa_to_orm(table, database) ==
    LET cols == BuildCols(<<>>, table.columns, 0)
        schema == get_db_name(database)
    IN IF schema.kind = "raised" THEN schema
       ELSE DeclarativeClass(table.name.root, schema.val, cols)

Tables ==
    {[name |-> [root |-> "orders"], fullyQualifiedName |-> "svc.prod.orders", columns |-> c] :
        c \in SeqsUpTo(Columns, MaxCols)}

OrmInit ==
    /\ RefIdle
    /\ OrmIdle
    /\ DecIdle

CallOmetaToOrm ==
    /\ ormCall.fn = "none"
    /\ \E table \in Tables, database \in DbArgs :
         /\ ormCall' = [fn |-> "ometa_to_orm", table |-> table, database |-> database]
         /\ ormResult' = ometa_to_orm(table, database)
    /\ UNCHANGED <<refVars, decVars>>

CallGetDbName ==
    /\ ormCall.fn = "none"
    /\ \E arg \in DbArgs :
         /\ ormCall' = [fn |-> "get_db_name", arg |-> arg]
         /\ ormResult' = get_db_name(arg)
    /\ UNCHANGED <<refVars, decVars>>

\* The caller takes the result (or handles the exception); the builder is idle again.
OrmReturn ==
    /\ ormCall.fn # "none"
    /\ ormCall' = [fn |-> "none"]
    /\ ormResult' = [kind |-> "none"]
    /\ UNCHANGED <<refVars, decVars>>

OrmNext ==
    \/ CallOmetaToOrm
    \/ CallGetDbName
    \/ OrmReturn

SpecOrm == OrmInit /\ [][OrmNext]_vars

(***************************************************************************)
(*                     Claims about the model builder                      *)
(***************************************************************************)

C7_GetDbNameDispatch ==
    ormCall.fn = "get_db_name" =>
        LET arg == ormCall.arg IN
        /\ arg.type = "str" => ormResult = [kind |-> "returned", val |-> arg.val]
        /\ arg.type = "Database" => ormResult = [kind |-> "returned", val |-> arg.name.root]
        /\ arg.type \notin {"str", "Database"} =>
              ormResult = [kind |-> "raised", exc |-> "NotImplementedError"]

\* C7 witness: get_db_name was given an argument that is neither a string nor
\* a Database and raised.
C7_Witness_UnsupportedRaised ==
    /\ ormCall.fn = "get_db_name"
    /\ ormCall.arg.type \notin {"str", "Database"}
    /\ ormResult.kind = "raised"

(***************************************************************************)
(*                         TYPE-STRING DECODER                             *)
(* A Python str is modelled as the sequence of its characters, so that the *)
(* regular expressions and string methods of the decoder are computed on   *)
(* the text itself.                                                        *)
(***************************************************************************)

Digits == {"0", "1", "2", "3", "4", "5", "6", "7", "8", "9"}

DigitValue(c) ==
    CASE c = "0" -> 0 [] c = "1" -> 1 [] c = "2" -> 2 [] c = "3" -> 3 [] c = "4" -> 4
      [] c = "5" -> 5 [] c = "6" -> 6 [] c = "7" -> 7 [] c = "8" -> 8 [] c = "9" -> 9

\* The first index of character c in s, 0 when there is none.
FirstIndexOf(s, c) ==
    IF \E i \in 1..Len(s) : s[i] = c
    THEN CHOOSE i \in 1..Len(s) : s[i] = c /\ \A j \in 1..(i - 1) : s[j] # c
    ELSE 0

\* The last index of character c in s, 0 when there is none.
LastIndexOf(s, c) ==
    IF \E i \in 1..Len(s) : s[i] = c
    THEN CHOOSE i \in 1..Len(s) : s[i] = c /\ \A j \in (i + 1)..Len(s) : s[j] # c
    ELSE 0

Contains(s, c) == \E i \in 1..Len(s) : s[i] = c

\* s.startswith(p)
StartsWith(s, p) == Len(s) >= Len(p) /\ SubSeq(s, 1, Len(p)) = p

\* s.endswith(p)
EndsWith(s, p) == Len(s) >= Len(p) /\ SubSeq(s, Len(s) - Len(p) + 1, Len(s)) = p

\* s[i:] (1-based i)
From(s, i) == SubSeq(s, i, Len(s))

\* s.split(c) for a one-character separator
RECURSIVE Split(_, _)
Split(s, c) ==
    LET i == FirstIndexOf(s, c) IN
    IF i = 0 THEN <<s>> ELSE <<SubSeq(s, 1, i - 1)>> \o Split(From(s, i + 1), c)

RECURSIVE LStrip(_)
LStrip(s) == IF s # <<>> /\ Head(s) = " " THEN LStrip(Tail(s)) ELSE s

RECURSIVE RStrip(_)
RStrip(s) == IF s # <<>> /\ s[Len(s)] = " " THEN RStrip(SubSeq(s, 1, Len(s) - 1)) ELSE s

\* re.split(r"\s*,\s*", s): split on commas, the blanks around a comma dropped
\* (not those at the two ends of s).
ReSplitComma(s) ==
    LET parts == Split(s, ",") IN
    [i \in 1..Len(parts) |->
        LET p == IF i > 1 THEN LStrip(parts[i]) ELSE parts[i]
        IN IF i < Len(parts) THEN RStrip(p) ELSE p]

\* Whether int(s) succeeds on a string of digits and commas: it does on digits alone.
IsIntLiteral(s) == s # <<>> /\ \A i \in 1..Len(s) : s[i] \in Digits

\* int(s) for a string of digits
RECURSIVE IntOf(_)
IntOf(s) ==
    IF s = <<>> THEN 0 ELSE IntOf(SubSeq(s, 1, Len(s) - 1)) * 10 + DigitValue(s[Len(s)])

\* The span (i, j) of the greedy match of r"\(.*\)" in s: the first "(" and the
\* last ")" when the one precedes the other; (0, 0) when there is no match.
ParenSpan(s) ==
    LET i == FirstIndexOf(s, "(")
        j == LastIndexOf(s, ")")
    IN IF i > 0 /\ j > i THEN <<i, j>> ELSE <<0, 0>>

\* re.sub(r"\[\]$", "", attype)
StripArrayBrackets(atype) ==
    IF EndsWith(atype, <<"[", "]">>) THEN SubSeq(atype, 1, Len(atype) - 2) ELSE atype

\* _handle_array_type(attype): (attype without a trailing "[]", whether it had one)
handle_array_type(atype) ==
    [attype |-> StripArrayBrackets(atype), is_array |-> EndsWith(atype, <<"[", "]">>)]

\* re.sub(r"\(.*\)", "", format_type)
StripParens(format_type) ==
    LET span == ParenSpan(format_type) IN
    IF span[1] = 0 THEN format_type
    ELSE SubSeq(format_type, 1, span[1] - 1) \o From(format_type, span[2] + 1)

\* _init_args(format_type): the text between the parentheses, split on commas
init_args(format_type) ==
    LET span == ParenSpan(format_type)
        group1 == SubSeq(format_type, span[1] + 1, span[2] - 1)
    IN IF span[1] > 0 /\ group1 # <<>>
       THEN LET parts == ReSplitComma(group1) IN [i \in 1..Len(parts) |-> [str |-> parts[i]]]
       ELSE <<>>

\* _get_charlen(format_type): group 1 of the first match of r"\(([\d,]+)\)", or None
get_charlen(format_type) ==
    LET IsMatch(i, j) ==
            /\ format_type[i] = "(" /\ format_type[j] = ")" /\ j > i + 1
            /\ \A k \in (i + 1)..(j - 1) : format_type[k] \in Digits \cup {","}
        starts == {i \in 1..Len(format_type) : \E j \in 1..Len(format_type) : IsMatch(i, j)}
    IN IF starts = {} THEN NoneVal
       ELSE LET i == CHOOSE x \in starts : \A y \in starts : x <= y
                j == CHOOSE x \in 1..Len(format_type) : IsMatch(i, x)
            IN Some(SubSeq(format_type, i + 1, j - 1))

\* util.quoted_token_parser(value): the dotted identifier split into its
\* tokens, double quotes removed (a doubled quote inside quotes is a literal
\* quote).  st is [state, result, idx]; idx is 1-based.
RECURSIVE QuotedTokenLoop(_, _)
QuotedTokenLoop(value, st) ==
    IF st.idx > Len(value) THEN st.result
    ELSE LET char == value[st.idx]
             n == Len(st.result)
             addChar(c) == [st.result EXCEPT ![n] = Append(@, c)]
         IN IF char = "\""
            THEN IF st.state = 1 /\ st.idx < Len(value) /\ value[st.idx + 1] = "\""
                 THEN QuotedTokenLoop(value, [state |-> st.state, result |-> addChar("\""),
                                              idx |-> st.idx + 2])
                 ELSE QuotedTokenLoop(value, [state |-> 1 - st.state, result |-> st.result,
                                              idx |-> st.idx + 1])
            ELSE IF char = "." /\ st.state = 0
                 THEN QuotedTokenLoop(value, [state |-> st.state,
                                              result |-> Append(st.result, <<>>),
                                              idx |-> st.idx + 1])
                 ELSE QuotedTokenLoop(value, [state |-> st.state, result |-> addChar(char),
                                              idx |-> st.idx + 1])

quoted_token_parser(value) ==
    IF ~Contains(value, "\"") THEN Split(value, ".")
    ELSE QuotedTokenLoop(value, [state |-> 0, result |-> <<<<>>>>, idx |-> 1])

(***************************************************************************)
(* Types.  A type object is [cls, args, kwargs, instance]: the class, the  *)
(* positional and keyword arguments it was built with, and whether it is   *)
(* an instance (the class called with them) or the class itself.  The      *)
(* positional arguments are [int |-> n] or [str |-> s]; a dict is a        *)
(* function from its keys.                                                 *)
(***************************************************************************)
EmptyDict == <<>>

DictPut(d, k, v) == (k :> v) @@ d

TypeInstance(cls, targs, tkwargs) ==
    [cls |-> cls, args |-> targs, kwargs |-> tkwargs, instance |-> TRUE]

TypeClass(cls) == [cls |-> cls, args |-> <<>>, kwargs |-> EmptyDict, instance |-> FALSE]

\* sqltypes.NULLTYPE, and NullType()
NULLTYPE == TypeInstance("NullType", <<>>, EmptyDict)

\* ischema_names["_array"](coltype)
ArrayOf(item_type) == TypeInstance("ARRAY", <<item_type>>, EmptyDict)

s_integer == <<"i", "n", "t", "e", "g", "e", "r">>

s_bigint == <<"b", "i", "g", "i", "n", "t">>

s_numeric == <<"n", "u", "m", "e", "r", "i", "c">>

s_character_varying == <<"c", "h", "a", "r", "a", "c", "t", "e", "r", " ", "v", "a", "r", "y", "i", "n", "g">>

s_character == <<"c", "h", "a", "r", "a", "c", "t", "e", "r">>

s_double_precision == <<"d", "o", "u", "b", "l", "e", " ", "p", "r", "e", "c", "i", "s", "i", "o", "n">>

s_timestamp_tz == <<"t", "i", "m", "e", "s", "t", "a", "m", "p", " ", "w", "i", "t", "h", " ", "t", "i", "m", "e", " ", "z", "o", "n", "e">>

s_time_tz == <<"t", "i", "m", "e", " ", "w", "i", "t", "h", " ", "t", "i", "m", "e", " ", "z", "o", "n", "e">>

s_timestamp_notz == <<"t", "i", "m", "e", "s", "t", "a", "m", "p", " ", "w", "i", "t", "h", "o", "u", "t", " ", "t", "i", "m", "e", " ", "z", "o", "n", "e">>

s_time_notz == <<"t", "i", "m", "e", " ", "w", "i", "t", "h", "o", "u", "t", " ", "t", "i", "m", "e", " ", "z", "o", "n", "e">>

s_time == <<"t", "i", "m", "e">>

s_bit_varying == <<"b", "i", "t", " ", "v", "a", "r", "y", "i", "n", "g">>

s_binary_varying == <<"b", "i", "n", "a", "r", "y", " ", "v", "a", "r", "y", "i", "n", "g">>

s_interval == <<"i", "n", "t", "e", "r", "v", "a", "l">>

\* ischema_names: the PostgreSQL dialect's type names (those the model uses)
\* and the entry the module adds, "binary varying".
ischema_names ==
    (s_integer :> "INTEGER") @@ (s_bigint :> "BIGINT") @@ (s_numeric :> "NUMERIC")
    @@ (s_character_varying :> "VARCHAR") @@ (s_character :> "CHAR")
    @@ (s_double_precision :> "DOUBLE_PRECISION")
    @@ (s_timestamp_tz :> "TIMESTAMP") @@ (s_timestamp_notz :> "TIMESTAMP")
    @@ (s_time_tz :> "TIME") @@ (s_time_notz :> "TIME") @@ (s_time :> "TIME")
    @@ (s_bit_varying :> "BIT") @@ (s_interval :> "INTERVAL")
    @@ (s_binary_varying :> "VARBINARY")

\* issubclass(coltype._type_affinity, sqltypes.Integer)
HasIntegerAffinity(ctype) == ctype.cls \in {"INTEGER", "BIGINT", "SMALLINT"}

ArgsOk(targs, tkwargs) == [raised |-> FALSE, exc |-> "", args |-> targs, kwargs |-> tkwargs]

ArgsRaised(exc) == [raised |-> TRUE, exc |-> exc, args |-> <<>>, kwargs |-> EmptyDict]

\* _get_kwargs_for_time_type(kwargs, charlen, attype); int(charlen) raises
\* ValueError when charlen holds a comma.
get_kwargs_for_time_type(tkwargs, charlen, atype) ==
    LET timezone == atype \in {s_timestamp_tz, s_time_tz} IN
    IF charlen.none THEN ArgsOk(<<>>, DictPut(tkwargs, "timezone", timezone))
    ELSE IF ~IsIntLiteral(charlen.val) THEN ArgsRaised("ValueError")
    ELSE ArgsOk(<<>>, DictPut(DictPut(tkwargs, "precision", IntOf(charlen.val)),
                              "timezone", timezone))

\* re.match(r"interval (.+)", attype, re.I): group 1, or None
IntervalFields(atype) ==
    IF StartsWith(atype, <<"i", "n", "t", "e", "r", "v", "a", "l", " ">>) /\ Len(atype) > Len(<<"i", "n", "t", "e", "r", "v", "a", "l", " ">>)
    THEN Some(From(atype, Len(<<"i", "n", "t", "e", "r", "v", "a", "l", " ">>) + 1)) ELSE NoneVal

\* The numeric branch taking precision and scale in the wrong order: the
\* mutant of NumericArgs.
NumericArgsSwapped(parts) == <<[int |-> IntOf(parts[2])], [int |-> IntOf(parts[1])]>>

\* args = (int(prec), int(scale))
NumericArgs(parts) == <<[int |-> IntOf(parts[1])], [int |-> IntOf(parts[2])]>>

\* _get_args_and_kwargs(charlen, attype, format_type).  `if charlen` is true
\* of every match (a match holds at least one character).
get_args_and_kwargs(charlen, atype, format_type) ==
    LET targs == init_args(format_type) IN
    IF atype = s_numeric /\ ~charlen.none
    THEN LET parts == Split(charlen.val, ",") IN
         \* prec, scale = charlen.split(","): ValueError unless two parts;
         \* int(prec), int(scale): ValueError on an empty part
         IF Len(parts) # 2 \/ ~IsIntLiteral(parts[1]) \/ ~IsIntLiteral(parts[2])
         THEN ArgsRaised("ValueError")
         ELSE ArgsOk(NumericArgs(parts), EmptyDict)
    ELSE IF atype = s_double_precision
    THEN ArgsOk(<<[int |-> 53]>>, EmptyDict)
    ELSE IF atype \in {s_timestamp_tz, s_time_tz, s_timestamp_notz, s_time_notz, s_time}
    THEN LET r == get_kwargs_for_time_type(EmptyDict, charlen, atype) IN
         IF r.raised THEN r ELSE ArgsOk(targs, r.kwargs)
    ELSE IF atype = s_bit_varying
    THEN IF charlen.none THEN ArgsOk(targs, DictPut(EmptyDict, "varying", TRUE))
         ELSE IF ~IsIntLiteral(charlen.val) THEN ArgsRaised("ValueError")
         ELSE ArgsOk(<<[int |-> IntOf(charlen.val)]>>, DictPut(EmptyDict, "varying", TRUE))
    ELSE IF StartsWith(atype, s_interval)
    THEN LET field_match == IntervalFields(atype)
             k1 == IF charlen.none THEN EmptyDict
                   ELSE DictPut(EmptyDict, "precision", IntOf(charlen.val))
             k2 == IF field_match.none THEN k1 ELSE DictPut(k1, "fields", field_match.val)
         IN IF ~charlen.none /\ ~IsIntLiteral(charlen.val) THEN ArgsRaised("ValueError")
            ELSE ArgsOk(targs, k2)
    ELSE IF ~charlen.none
    THEN IF ~IsIntLiteral(charlen.val) THEN ArgsRaised("ValueError")
         ELSE ArgsOk(<<[int |-> IntOf(charlen.val)]>>, EmptyDict)
    ELSE ArgsOk(targs, EmptyDict)

s_nextval == <<"n", "e", "x", "t", "v", "a", "l", "(", "'">>

\* re.search(r"""(nextval\(')([^']+)('.*$)""", default): the leftmost
\* "nextval('" that is followed by at least one character other than a quote
\* and then a quote.  [matched, g1, g2, g3].
NextvalSearch(dflt) ==
    LET n == Len(s_nextval)
        QuoteAfter(p) == FirstIndexOf(From(dflt, p + n), "'")
        IsMatch(p) == /\ p + n - 1 <= Len(dflt)
                      /\ SubSeq(dflt, p, p + n - 1) = s_nextval
                      /\ QuoteAfter(p) > 1
        starts == {p \in 1..Len(dflt) : IsMatch(p)}
    IN IF starts = {} THEN [matched |-> FALSE, g1 |-> <<>>, g2 |-> <<>>, g3 |-> <<>>]
       ELSE LET p == CHOOSE x \in starts : \A y \in starts : x <= y
                q == p + n + QuoteAfter(p) - 1
            IN [matched |-> TRUE, g1 |-> s_nextval,
                g2 |-> SubSeq(dflt, p + n, q - 1), g3 |-> From(dflt, q)]

\* if issubclass(coltype._type_affinity, sqltypes.Integer): autoincrement = True
SequenceAutoincrement(ctype, autoincrement) ==
    IF HasIntegerAffinity(ctype) THEN TRUE ELSE autoincrement

\* A sequence name that is qualified whenever a schema is given: the mutant of
\* QualifiesSequence.
QualifiesSequenceAlways(seq_name, sch) == ~sch.none

\* if "." not in match.group(2) and sch is not None
QualifiesSequence(seq_name, sch) == ~Contains(seq_name, ".") /\ ~sch.none

\* _update_column_info(default, schema, coltype, autoincrement, name, nullable,
\* identity, comment, computed): the column_info dict
update_column_info(dflt, schema, ctype, autoincrement, name, nullable_, identity, comment, computed) ==
    LET match == IF dflt.none
                 THEN [matched |-> FALSE, g1 |-> <<>>, g2 |-> <<>>, g3 |-> <<>>]
                 ELSE NextvalSearch(dflt.val)
        autoinc == IF match.matched THEN SequenceAutoincrement(ctype, autoincrement)
                   ELSE autoincrement
        newdefault ==
            IF match.matched /\ QualifiesSequence(match.g2, schema)
            THEN Some(match.g1 \o <<"\"">> \o schema.val \o <<"\"">> \o <<".">> \o match.g2 \o match.g3)
            ELSE dflt
        base == [name |-> name, type |-> ctype, nullable |-> nullable_,
                 default |-> newdefault,
                 autoincrement |-> (autoinc \/ ~identity.none), comment |-> comment]
        withComputed == IF computed.none THEN base ELSE DictPut(base, "computed", computed.val)
    IN IF identity.none THEN withComputed ELSE DictPut(withComputed, "identity", identity.val)

\* _update_coltype(coltype, args, kwargs, attype, name, is_array); coltype is
\* the class found (Some) or None, for which a warning is issued.
update_coltype(ctype, targs, tkwargs, atype, name, isarray) ==
    IF ~ctype.none
    THEN LET t == TypeInstance(ctype.val, targs, tkwargs) IN
         IF isarray THEN ArrayOf(t) ELSE t
    ELSE NULLTYPE

\* The values of `generated` that mean "not a generated column": None, "", b"\x00"
NotGenerated == {"None", "", "\\x00"}

\* _update_computed_and_default(generated, default): (computed, default)
update_computed_and_default(generated, dflt) ==
    IF generated \notin NotGenerated
    THEN [computed |-> Some([sqltext |-> dflt, persisted |-> generated = "s"]),
          default |-> NoneVal]
    ELSE [computed |-> NoneVal, default |-> dflt]

\* A domain that overrides the column's nullability: the mutant of DomainNullable.
DomainNullableOverride(nullable_, domain) == domain.nullable

\* nullable = nullable and domain["nullable"]
DomainNullable(nullable_, domain) == nullable_ /\ domain.nullable

\* if domain["default"] and not default: default = domain["default"]
\* (None and the empty string both count as no default)
DomainDefault(dflt, domain) ==
    LET truthy(d) == ~d.none /\ d.val # <<>> IN
    IF truthy(domain.default) /\ ~truthy(dflt) THEN domain.default ELSE dflt

(***************************************************************************)
(* The inputs of the decoder.                                              *)
(***************************************************************************)
s_dom1 == <<"d", "o", "m", "1">>

s_dom2 == <<"d", "o", "m", "2">>

s_mood == <<"m", "o", "o", "d">>

\* The formatted type strings (format_type) the catalog query hands over.
FormatTypes ==
    {<<"i", "n", "t", "e", "g", "e", "r">>, <<"i", "n", "t", "e", "g", "e", "r", "[", "]">>, <<"b", "i", "g", "i", "n", "t">>,
     <<"n", "u", "m", "e", "r", "i", "c">>, <<"n", "u", "m", "e", "r", "i", "c", "(", "1", "0", ",", "2", ")">>, <<"n", "u", "m", "e", "r", "i", "c", "(", "1", "0", ",", "2", ")", "[", "]">>, <<"n", "u", "m", "e", "r", "i", "c", "(", "4", ",", "1", "2", ")">>, <<"n", "u", "m", "e", "r", "i", "c", "(", "1", "0", ")">>,
     <<"c", "h", "a", "r", "a", "c", "t", "e", "r", " ", "v", "a", "r", "y", "i", "n", "g">>, <<"c", "h", "a", "r", "a", "c", "t", "e", "r", " ", "v", "a", "r", "y", "i", "n", "g", "(", "5", ")">>, <<"c", "h", "a", "r", "a", "c", "t", "e", "r", "(", "3", ")">>,
     <<"d", "o", "u", "b", "l", "e", " ", "p", "r", "e", "c", "i", "s", "i", "o", "n">>,
     <<"t", "i", "m", "e", "s", "t", "a", "m", "p", "(", "3", ")", " ", "w", "i", "t", "h", " ", "t", "i", "m", "e", " ", "z", "o", "n", "e">>, <<"t", "i", "m", "e", "s", "t", "a", "m", "p", " ", "w", "i", "t", "h", "o", "u", "t", " ", "t", "i", "m", "e", " ", "z", "o", "n", "e">>,
     <<"b", "i", "t", " ", "v", "a", "r", "y", "i", "n", "g", "(", "8", ")">>, <<"i", "n", "t", "e", "r", "v", "a", "l", " ", "d", "a", "y">>, <<"i", "n", "t", "e", "r", "v", "a", "l", "(", "1", ",", "2", ")">>,
     <<"w", "i", "d", "g", "e", "t">>, <<"w", "i", "d", "g", "e", "t", "[", "]">>, <<"g", "e", "o", "m", "e", "t", "r", "y", "(", "P", "O", "L", "Y", "G", "O", "N", ")">>,
     <<"m", "o", "o", "d">>, <<"m", "o", "o", "d", "[", "]">>,
     <<"d", "o", "m", "1">>, <<"d", "o", "m", "1", "[", "]">>, <<"\"", "d", "o", "m", "1", "\"">>, <<"d", "o", "m", "2">>}

\* The column defaults: none, a sequence with an unqualified name, one with a
\* qualified name, a literal.
Defaults ==
    {NoneVal, Some(<<"n", "e", "x", "t", "v", "a", "l", "(", "'", "s", "e", "q", "'", ":", ":", "r", "e", "g", "c", "l", "a", "s", "s", ")">>), Some(<<"n", "e", "x", "t", "v", "a", "l", "(", "'", "s", ".", "s", "e", "q", "'", ":", ":", "r", "e", "g", "c", "l", "a", "s", "s", ")">>),
     Some(<<"0">>)}

Schemas == {NoneVal, Some(<<"p", "u", "b", "l", "i", "c">>)}

\* The domains of the database (_load_domains): key -> [attype, nullable, default].
\* dom1 and dom2 may each be absent, and may name a primitive type, an array,
\* each other or themselves.
Dom1Defs ==
    [attype : {<<"i", "n", "t", "e", "g", "e", "r">>, <<"i", "n", "t", "e", "g", "e", "r", "[", "]">>, <<"d", "o", "m", "2">>, <<"d", "o", "m", "1">>},
     nullable : BOOLEAN,
     default : {NoneVal}]

Dom2Defs ==
    [attype : {<<"i", "n", "t", "e", "g", "e", "r">>, <<"d", "o", "m", "1">>}, nullable : BOOLEAN,
     default : {Some(<<"n", "e", "x", "t", "v", "a", "l", "(", "'", "d", "s", "e", "q", "'", ":", ":", "r", "e", "g", "c", "l", "a", "s", "s", ")">>)}]

DomainTables ==
    {EmptyDict}
    \cup {(<<s_dom1>> :> d1) : d1 \in Dom1Defs}
    \cup {(<<s_dom2>> :> d2) : d2 \in Dom2Defs}
    \cup {(<<s_dom1>> :> d1) @@ (<<s_dom2>> :> d2) : d1 \in Dom1Defs, d2 \in Dom2Defs}

\* The enums of the database (_load_enums): key -> [name, visible, schema, labels].
MoodEnum ==
    [name |-> s_mood, visible |-> TRUE, schema |-> <<"p", "u", "b", "l", "i", "c">>,
     labels |-> <<[str |-> <<"s", "a", "d">>], [str |-> <<"h", "a", "p", "p", "y">>]>>]

EnumTables == {EmptyDict, (<<s_mood>> :> MoodEnum)}

\* A table with both domains, for the types that name no domain.
BothDomains ==
    (<<s_dom1>> :> [attype |-> s_integer, nullable |-> FALSE, default |-> NoneVal])
    @@ (<<s_dom2>> :> [attype |-> s_dom1, nullable |-> TRUE, default |-> NoneVal])

\* The (domains, enums) tables a type string is decoded against.  The loop
\* looks a name up in the tables only when it is no primitive type, and finds
\* it only when a table has it: a type string that names a domain is decoded
\* against every domain table, one that names the enum against both enum
\* tables, and the others against the empty tables and against full ones.
TablesFor(format_type) ==
    LET key == quoted_token_parser(StripArrayBrackets(StripParens(format_type))) IN
    IF key \in {<<s_dom1>>, <<s_dom2>>}
    THEN {[domains |-> d, enums |-> EmptyDict] : d \in DomainTables}
    ELSE {[domains |-> d, enums |-> e] : d \in {EmptyDict, BothDomains}, e \in EnumTables}

\* (generated, identity) of a column: a plain column, a stored generated
\* column, an identity column.
ColumnKinds ==
    {[generated |-> "", identity |-> NoneVal],
     [generated |-> "s", identity |-> NoneVal],
     [generated |-> "", identity |-> Some([always |-> FALSE, start |-> 1])]}

\* The SQLAlchemy version the module was imported with (sa_version); the
\* patched PGDialect._get_column_info takes `generated` and `identity`, which
\* the callers of SQLAlchemy 1.4 pass.
sa_version == <<1, 4, 27>>

\* Version(a) < Version(b) for release tuples of three numbers
VersionLess(a, b) ==
    \/ a[1] < b[1]
    \/ a[1] = b[1] /\ a[2] < b[2]
    \/ a[1] = b[1] /\ a[2] = b[2] /\ a[3] < b[3]

(***************************************************************************)
(* PGDialect._get_column_info, as patched (lines 341-421).                 *)
(***************************************************************************)

\* Lines 357-369: the locals before the domain loop, or the exception of
\* _get_args_and_kwargs.
ColumnInfoBegin(c) ==
    LET h == handle_array_type(StripParens(c.format_type))
        charlen == get_charlen(c.format_type)
        ak == get_args_and_kwargs(charlen, h.attype, c.format_type)
    IN [raised |-> ak.raised, exc |-> ak.exc,
        attype |-> IF StartsWith(h.attype, s_interval) THEN s_interval ELSE h.attype,
        is_array |-> h.is_array,
        enum_or_domain_key |-> quoted_token_parser(h.attype),
        nullable |-> ~c.notnull,
        args |-> ak.args, kwargs |-> ak.kwargs]

\* The locals of a call that has begun.
Begun(c, via) ==
    LET b == ColumnInfoBegin(c) IN
    /\ decCall' = [c EXCEPT !.via = via]
    /\ decPc' = IF b.raised THEN "raised" ELSE "loop"
    /\ decExc' = b.exc
    /\ attype' = b.attype
    /\ is_array' = b.is_array
    /\ enum_or_domain_key' = b.enum_or_domain_key
    /\ nullable' = b.nullable
    /\ default' = c.default
    /\ args' = b.args
    /\ kwargs' = b.kwargs
    /\ UNCHANGED <<coltype, column_info, traversed>>

\* The arguments of a call of the PGDialect method.
DecCall(format_type, dflt, notnull, tables, schema, kind) ==
    [via |-> "pg", name |-> <<"c">>, format_type |-> format_type, default |-> dflt,
     notnull |-> notnull, domains |-> tables.domains, enums |-> tables.enums,
     schema |-> schema, comment |-> NoneVal, generated |-> kind.generated,
     identity |-> kind.identity, encode |-> NoneVal]

\* PGDialect.get_columns calls self._get_column_info(name, format_type, ...).
PgGetColumnInfo ==
    /\ decPc = "idle"
    /\ \E format_type \in FormatTypes, dflt \in Defaults, notnull \in BOOLEAN,
          schema \in Schemas, kind \in ColumnKinds :
         \E tables \in TablesFor(format_type) :
            Begun(DecCall(format_type, dflt, notnull, tables, schema, kind), "pg")
    /\ UNCHANGED <<refVars, ormVars>>

\* The keywords of the Redshift override after lines 118-125: encode is taken
\* out, generated is set to "" (SQLAlchemy 1.3.16 and later) and identity to
\* None when the caller gave none (1.4.0 and later).
PlainColumn == [generated |-> "", identity |-> NoneVal]

\* RedshiftDialectMixin._get_column_info(*args, **kwargs), lines 118-128: the
\* keywords are copied and completed, and the PGDialect method is called.
RedshiftGetColumnInfo ==
    /\ decPc = "idle"
    /\ \E format_type \in FormatTypes, dflt \in Defaults, notnull \in BOOLEAN,
          schema \in Schemas, encode \in {Some(<<"n", "o", "n", "e">>), Some(<<"l", "z", "o">>)} :
         \E tables \in TablesFor(format_type) :
            LET c == [DecCall(format_type, dflt, notnull, tables, schema, PlainColumn)
                        EXCEPT !.encode = encode, !.via = "redshift"]
            IN IF VersionLess(sa_version, <<1, 4, 0>>)
               THEN \* the keywords lack `identity` (and `generated` before
                    \* 1.3.16), which the patched method requires
                    /\ decCall' = c
                    /\ decPc' = "raised"
                    /\ decExc' = "TypeError"
                    /\ UNCHANGED <<attype, is_array, enum_or_domain_key, nullable, default,
                                   args, kwargs, coltype, column_info, traversed>>
               ELSE Begun(c, "redshift")
    /\ UNCHANGED <<refVars, ormVars>>

loopUnchanged == <<decCall, decExc, column_info, refVars, ormVars>>

\* if attype in ischema_names: coltype = ischema_names[attype]; break
ResolvePrimitive ==
    /\ decPc = "loop"
    /\ attype \in DOMAIN ischema_names
    /\ coltype' = Some(ischema_names[attype])
    /\ decPc' = "resolved"
    /\ UNCHANGED <<attype, is_array, enum_or_domain_key, nullable, default, args, kwargs,
                   traversed, loopUnchanged>>

\* elif enum_or_domain_key in enums: ...; break
ResolveEnum ==
    /\ decPc = "loop"
    /\ attype \notin DOMAIN ischema_names
    /\ enum_or_domain_key \in DOMAIN decCall.enums
    /\ LET enum == decCall.enums[enum_or_domain_key]
           k1 == DictPut(kwargs, "name", enum.name)
       IN /\ coltype' = Some("ENUM")
          /\ kwargs' = IF ~enum.visible THEN DictPut(k1, "schema", enum.schema) ELSE k1
          /\ args' = enum.labels
    /\ decPc' = "resolved"
    /\ UNCHANGED <<attype, is_array, enum_or_domain_key, nullable, default, traversed,
                   loopUnchanged>>

\* elif enum_or_domain_key in domains: the domain's type takes the place of
\* attype and the loop goes round again
ResolveDomain ==
    /\ decPc = "loop"
    /\ attype \notin DOMAIN ischema_names
    /\ enum_or_domain_key \notin DOMAIN decCall.enums
    /\ enum_or_domain_key \in DOMAIN decCall.domains
    /\ LET domain == decCall.domains[enum_or_domain_key]
           h == handle_array_type(domain.attype)
       IN /\ attype' = h.attype
          /\ is_array' = h.is_array
          /\ enum_or_domain_key' = quoted_token_parser(h.attype)
          /\ nullable' = DomainNullable(nullable, domain)
          /\ default' = DomainDefault(default, domain)
    /\ traversed' = traversed \cup {enum_or_domain_key}
    /\ UNCHANGED <<decPc, args, kwargs, coltype, loopUnchanged>>

\* else: coltype = None; break
ResolveUnknown ==
    /\ decPc = "loop"
    /\ attype \notin DOMAIN ischema_names
    /\ enum_or_domain_key \notin DOMAIN decCall.enums
    /\ enum_or_domain_key \notin DOMAIN decCall.domains
    /\ coltype' = NoneVal
    /\ decPc' = "resolved"
    /\ UNCHANGED <<attype, is_array, enum_or_domain_key, nullable, default, args, kwargs,
                   traversed, loopUnchanged>>

\* Lines 400-421: the type is built, the computed and default values settled,
\* the column_info dict returned (to the Redshift override when it made the call).
ColumnInfoFinish ==
    /\ decPc = "resolved"
    /\ LET t == update_coltype(coltype, args, kwargs, attype, decCall.name, is_array)
           cd == update_computed_and_default(decCall.generated, default)
       IN /\ column_info' = update_column_info(cd.default, decCall.schema, t, FALSE,
                                decCall.name, nullable, decCall.identity,
                                decCall.comment, cd.computed)
          /\ default' = cd.default
    /\ decPc' = IF decCall.via = "redshift" THEN "super_returned" ELSE "done"
    /\ UNCHANGED <<decCall, decExc, attype, is_array, enum_or_domain_key, nullable, args,
                   kwargs, coltype, traversed, refVars, ormVars>>

\* re.match("char", column_info["raw_data_type"])
MatchesChar(raw_data_type) == StartsWith(raw_data_type, <<"c", "h", "a", "r">>)

\* Lines 129-141 of the Redshift override, on the column_info of the PGDialect method.
redshift_column_info(info, format_type, encode) ==
    LET t1 == IF info.type.cls = "VARCHAR" /\ info.type.instance /\ info.type.args = <<>>
              THEN NULLTYPE ELSE info.type
        t2 == IF MatchesChar(format_type) THEN TypeClass("CHAR") ELSE t1
        i1 == IF ~encode.none /\ encode.val # <<"n", "o", "n", "e">>
              THEN DictPut(EmptyDict, "encode", encode.val) ELSE EmptyDict
    IN DictPut(DictPut([info EXCEPT !.type = t2], "raw_data_type", format_type), "info", i1)

RedshiftFinish ==
    /\ decPc = "super_returned"
    /\ column_info' = redshift_column_info(column_info, decCall.format_type, decCall.encode)
    /\ decPc' = "done"
    /\ UNCHANGED <<decCall, decExc, attype, is_array, enum_or_domain_key, nullable, default,
                   args, kwargs, coltype, traversed, refVars, ormVars>>

\* The caller takes the column_info (or the exception); the decoder is idle again.
DecReturn ==
    /\ decPc \in {"done", "raised"}
    /\ decPc' = "idle"
    /\ decCall' = NoDecCall
    /\ decExc' = ""
    /\ attype' = <<>>
    /\ is_array' = FALSE
    /\ enum_or_domain_key' = <<>>
    /\ nullable' = TRUE
    /\ default' = NoneVal
    /\ args' = <<>>
    /\ kwargs' = EmptyDict
    /\ coltype' = NoneVal
    /\ column_info' = EmptyDict
    /\ traversed' = {}
    /\ UNCHANGED <<refVars, ormVars>>

DecInit ==
    /\ RefIdle
    /\ OrmIdle
    /\ DecIdle

DecNext ==
    \/ PgGetColumnInfo
    \/ RedshiftGetColumnInfo
    \/ ResolvePrimitive
    \/ ResolveEnum
    \/ ResolveDomain
    \/ ResolveUnknown
    \/ ColumnInfoFinish
    \/ RedshiftFinish
    \/ DecReturn

SpecDecoder == DecInit /\ [][DecNext]_vars

(***************************************************************************)
(* Properties of the type-string decoder.                                  *)
(***************************************************************************)

\* The PGDialect method has returned its column_info: to the caller, or to
\* the Redshift override before the override has touched it.
ColumnInfoReturned ==
    \/ decPc = "done" /\ decCall.via = "pg"
    \/ decPc = "super_returned"

\* C2: for every type string and every other input the decoder returns a
\* column descriptor and never raises, and a type name that is no primitive,
\* no enum and no domain gives the null type.
C2_DecoderNeverRaises ==
    /\ decPc # "raised"
    /\ (ColumnInfoReturned /\ coltype.none) => column_info.type = NULLTYPE

\* C3: "character varying" without a length, decoded through the Redshift
\* override, ends with NullType as the column's type and does not raise.
C3_VarcharNoLengthIsNullType ==
    (/\ decPc \in {"done", "raised"}
     /\ decCall.via = "redshift"
     /\ decCall.format_type = s_character_varying)
    => (decPc = "done" /\ column_info.type = NULLTYPE)

\* C4: the nullable flag of the returned column is the column's own
\* nullability and the nullable flag of every domain traversed, whatever the
\* length of the chain.
C4_NullableIsConjunction ==
    decPc \in {"super_returned", "done"}
    => column_info.nullable =
         ((~decCall.notnull) /\ \A k \in traversed : decCall.domains[k].nullable)

\* A nullable column over a chain of two domains, one of them not nullable,
\* has come back not nullable.
C4_Witness_ChainOfTwoNotNull ==
    /\ decPc = "done"
    /\ ~decCall.notnull
    /\ Cardinality(traversed) = 2
    /\ \E k \in traversed : ~decCall.domains[k].nullable
    /\ \E k \in traversed : decCall.domains[k].nullable
    /\ column_info.nullable = FALSE

\* C5: when the default given to _update_column_info matches
\* nextval('seq_name'...), a type of integer affinity makes the column
\* auto-increment, and the default is rewritten to
\* nextval('"schema".seq_name'...) when a schema is given and seq_name has no
\* dot; in every other case the default is handed back unchanged.
C5_NextvalAutoincrementAndQualify ==
    ColumnInfoReturned =>
      LET m == IF default.none
               THEN [matched |-> FALSE, g1 |-> <<>>, g2 |-> <<>>, g3 |-> <<>>]
               ELSE NextvalSearch(default.val)
      IN /\ (m.matched /\ column_info.type.cls \in {"INTEGER", "BIGINT", "SMALLINT"})
              => column_info.autoincrement
         /\ IF m.matched /\ ~decCall.schema.none /\ ~Contains(m.g2, ".")
            THEN column_info.default =
                   Some(s_nextval \o <<"\"">> \o decCall.schema.val \o <<"\"", ".">>
                        \o m.g2 \o m.g3)
            ELSE column_info.default = default

\* An integer column with the default nextval('seq'::regclass) in schema
\* public has come back auto-increment, its default naming "public".seq.
C5_Witness_QualifiedSequence ==
    /\ ColumnInfoReturned
    /\ default = Some(<<"n", "e", "x", "t", "v", "a", "l", "(", "'", "s", "e", "q", "'", ":", ":", "r", "e", "g", "c", "l", "a", "s", "s", ")">>)
    /\ column_info.type.cls = "INTEGER"
    /\ column_info.autoincrement
    /\ decCall.identity.none
    /\ column_info.default = Some(<<"n", "e", "x", "t", "v", "a", "l", "(", "'", "\"", "p", "u", "b", "l", "i", "c", "\"", ".", "s", "e", "q", "'", ":", ":", "r", "e", "g", "c", "l", "a", "s", "s", ")">>)

\* C10: a type string ending in "[]" whose base type resolves comes back as
\* an array of the resolved base type.
C10_ArrayOfResolvedBase ==
    (/\ ColumnInfoReturned
     /\ EndsWith(decCall.format_type, <<"[", "]">>)
     /\ ~coltype.none)
    => (/\ column_info.type.cls = "ARRAY"
        /\ column_info.type.args = <<TypeInstance(coltype.val, args, kwargs)>>)

\* The decimal digits, by value.
DecimalDigits == <<"0", "1", "2", "3", "4", "5", "6", "7", "8", "9">>

\* The decimal text of a natural number.
RECURSIVE Decimal(_)
Decimal(n) ==
    IF n < 10 THEN <<DecimalDigits[n + 1]>>
    ELSE Decimal(n \div 10) \o <<DecimalDigits[(n % 10) + 1]>>

\* C11: for the type string numeric(p,s) the positional type arguments are
\* exactly the integers (p, s), precision first and scale second, and the
\* returned type is NUMERIC(p, s).
C11_NumericPrecisionScale ==
    (/\ decPc \in {"loop", "resolved", "super_returned", "done"}
     /\ StartsWith(decCall.format_type, s_numeric \o <<"(">>))
    => \A p \in 0..12, s \in 0..12 :
         decCall.format_type = s_numeric \o <<"(">> \o Decimal(p) \o <<",">> \o Decimal(s) \o <<")">>
         => /\ args = <<[int |-> p], [int |-> s]>>
            /\ ColumnInfoReturned
                 => column_info.type =
                      TypeInstance("NUMERIC", <<[int |-> p], [int |-> s]>>, EmptyDict)

\* numeric(10,2) has come back as NUMERIC with precision 10 and scale 2.
C11_Witness_Numeric10_2 ==
    /\ decPc = "done"
    /\ decCall.format_type = <<"n", "u", "m", "e", "r", "i", "c", "(", "1", "0", ",", "2", ")">>
    /\ args = <<[int |-> 10], [int |-> 2]>>
    /\ column_info.type.cls = "NUMERIC"
    /\ column_info.type.args = <<[int |-> 10], [int |-> 2]>>

(***************************************************************************)
(* Termination of the domain loop.  The interpreter runs a call that has   *)
(* begun to its end: every step of the decoder that stays enabled is       *)
(* taken.                                                                  *)
(***************************************************************************)
DecFairness ==
    /\ WF_vars(ResolvePrimitive)
    /\ WF_vars(ResolveEnum)
    /\ WF_vars(ResolveDomain)
    /\ WF_vars(ResolveUnknown)
    /\ WF_vars(ColumnInfoFinish)
    /\ WF_vars(RedshiftFinish)

SpecDecoderLive == DecInit /\ [][DecNext]_vars /\ DecFairness

\* C12: for every type name and every enum and domain table, those in which a
\* domain names itself or a domain that leads back to it included, the loop
\* of _get_column_info ends and a column descriptor is returned.
C12_DomainLoopTerminates ==
    (decPc = "loop") ~> (decPc = "done")

====
